---- MODULE Spec2Model ----
(***************************************************************************)
(* Model of droidboot: the autoboot countdown thread, the input listener   *)
(* thread and the command thread (src/droidboot.c), and the OSIP image     *)
(* table update path write_stitch_image (src/update_osip.c).               *)
(*                                                                         *)
(* Threads interleave statement by statement.  autoboot_enabled is a plain *)
(* int shared without locking: each read and each store of it is one step, *)
(* so a read that races with the store sees the old or the new value.      *)
(*                                                                         *)
(* 32-bit unsigned values at or above 2^31 are written as the value minus  *)
(* 2^32 (the two's-complement reading of the same bits), so that equality  *)
(* of two 32-bit values is equality of the numbers that stand for them.    *)
(*                                                                         *)
(* SpecBoot runs the three threads over the autoboot flag; SpecOsip runs   *)
(* write_stitch_image commands against the device.  The two share no       *)
(* state but the process itself.                                           *)
(***************************************************************************)
EXTENDS Integers, Sequences, FiniteSets, TLC

(* ------------------------------ bounds --------------------------------- *)

\* largest AUTOBOOT_DELAY_SECS explored
MaxDelay == 2

\* largest number of input device nodes the listener can open
MaxDevs == 2

\* largest number of write_stitch_image commands in one run
MaxFlash == 2

\* largest declared page count explored below the 32-bit wrap
MaxPages == 1

(* --------------------------- program constants ------------------------- *)

EV_SYN == 0
EV_KEY == 1
EV_REL == 2
EV_ABS == 3
EV_MSC == 4
KEY_ENTER == 28
KEY_DOT == 52

OSIP_SIG == 609439524
OSII_TOTAL == 7
MMC_PAGES_PER_BLOCK == 1
KBYTES == 1024
STITCHED_IMAGE_PAGE_SIZE == 512
STITCHED_IMAGE_BLOCK_SIZE == 512

\* descriptors 0..3 are stdin, stdout, stderr and the directory stream
FirstFd == 4

\* struct input_event event before the first read
NoEvent == [type |-> -1, code |-> -1]

\* no call of disable_autoboot has returned yet
NotYet == [pc |-> "none", st |-> 0]

VARIABLES
    proc,               \* "running" | "dead" (die()) | "booted" (kexec)
    autoboot_enabled,   \* static int autoboot_enabled
    sleep_time,         \* autoboot_thread: unsigned int sleep_time
    autoboot_delay_secs,\* main: unsigned int autoboot_delay_secs
    ticks,              \* number of sleep(1) calls that have returned
    ab_pc,              \* autoboot_thread: position
    launched,           \* number of calls of start_default_kernel
    w_pc,               \* input_listener_thread: position
    rfds,               \* input_listener_thread: fd_set rfds
    max_fd,             \* input_listener_thread: int max_fd
    fds,                \* input_listener_thread: fd_set fds
    w_i,                \* input_listener_thread: int i
    event,              \* input_listener_thread: struct input_event event
    w_calls,            \* calls of disable_autoboot made by the listener
    m_pc,               \* main/command thread: position
    n_log,              \* number of "Autoboot disabled." lines logged
    n_clear,            \* number of stores that took the flag from 1 to 0
    cancel_at,          \* where autoboot_thread stood when the first
                        \* disable_autoboot call returned
    erase_attr,         \* text of the erase_size attribute (MMC_PAGE_SIZE)
    dev_osip,           \* MMC_DEV_POS: the OSIP header at byte offset 0
    dev_data,           \* MMC_DEV_POS: payloads written, by byte offset
    n_flash,            \* number of write_stitch_image calls so far
    data,               \* write_stitch_image: the stitched image
    size,               \* write_stitch_image: size_t size
    update_number,      \* write_stitch_image: int update_number
    block_size,         \* write_stitch_image: int block_size
    page_size,          \* write_stitch_image: int page_size
    osii,               \* write_stitch_image: *osii
    blob,               \* write_stitch_image: void *blob
    osip,               \* write_stitch_image: struct OSIP_header osip
    ret,                \* value returned by the last write_stitch_image
    r_ret,              \* value returned by read_OSIP_loc (0: not called)
    console,            \* messages printed by the current call
    io,                 \* outcome of each system call of the current call
    io_log,             \* device operations of the current call, in order
    pre                 \* the device when the current call began

boot_vars == <<proc, autoboot_enabled, sleep_time, autoboot_delay_secs,
               ticks, ab_pc, launched, w_pc, rfds, max_fd, fds, w_i, event, w_calls, m_pc, n_log, n_clear,
               cancel_at>>

dev_vars == <<erase_attr, dev_osip, dev_data>>

ws_vars == <<n_flash, data, size, update_number, block_size, page_size,
             osii, blob, osip, ret, r_ret, console, io, io_log, pre>>

osip_vars == <<dev_vars, ws_vars>>

\* the two background threads and the autoboot flag
thr_vars == <<autoboot_enabled, sleep_time, autoboot_delay_secs, ticks,
              ab_pc, launched, w_pc, rfds, max_fd, fds, w_i, event, w_calls, n_log, n_clear, cancel_at>>

vars == <<boot_vars, osip_vars>>

(* ----------------------------- helpers --------------------------------- *)

FdSet == FirstFd .. (FirstFd + MaxDevs - 1)

SetMax(S) == CHOOSE x \in S : \A y \in S : y <= x

EventTypes == {EV_SYN, EV_KEY, EV_REL, EV_ABS, EV_MSC}
EventCodes == {KEY_ENTER, KEY_DOT}
Events == [type : EventTypes, code : EventCodes]

\* the test with its sense inverted:  if (autoboot_enabled) return NULL;
AbStops_inverted(flag) == flag # 0

\* droidboot.c:69 and :75  if (!autoboot_enabled) return NULL;
AbStops(flag) == flag = 0

\* the test left out: the store and the log happen on every call
DisableTest_always(flag) == TRUE

\* droidboot.c:204  if (autoboot_enabled)
DisableTest(flag) == flag # 0

\* the flag toggled instead of cleared:  autoboot_enabled = !autoboot_enabled;
DisableStore_toggle(flag) == 1 - flag

\* droidboot.c:205  autoboot_enabled = 0;
DisableStore(flag) == 0

\* the KEY_DOT case left out of the inner switch
SwitchCancels_nodot(ev) ==
    CASE ev.type = EV_KEY -> TRUE
      [] ev.type = EV_ABS -> TRUE
      [] ev.type = EV_REL -> TRUE
      [] OTHER -> FALSE

\* droidboot.c:171-192  the switch: TRUE when the event leads to
\* disable_autoboot(); goto out;  FALSE when it leads to continue
SwitchCancels(ev) ==
    CASE ev.type = EV_KEY -> (CASE ev.code = KEY_DOT -> FALSE
                                [] OTHER -> TRUE)
      [] ev.type = EV_ABS -> TRUE
      [] ev.type = EV_REL -> TRUE
      [] OTHER -> FALSE

\* the position of autoboot_thread, recorded when the first call of
\* disable_autoboot returns
Returned == IF cancel_at = NotYet
            THEN [pc |-> ab_pc, st |-> sleep_time]
            ELSE cancel_at

(* ------------------- update_osip.c: values and helpers ------------------ *)

\* 2^23: the page count at which  size_of_os_image * 512  wraps in 32 bits
Pages2to32 == 8388608

Slots == 0 .. (OSII_TOTAL - 1)

ZeroDesc == [lsb |-> 0, size |-> 0, tag |-> 0]

\* struct OSII: logical_start_block, size_of_os_image, and tag for the
\* fields copied verbatim (os_rev_*, ddr_load_address, entery_point,
\* attribute)
MkDesc(l, sz, t) == [lsb |-> l, size |-> sz, tag |-> t]

\* memset((void *)osip, 0, sizeof(*osip))
ZeroOsip == [sig |-> 0, num_images |-> 0, desc |-> [i \in Slots |-> ZeroDesc]]

LE32_swapped(b) == b[4] + 256 * b[3] + 65536 * b[2] + 16777216 * b[1]

\* little-endian reading of the four signature bytes
LE32(b) == b[1] + 256 * b[2] + 65536 * b[3] + 16777216 * b[4]

LE32Bytes(v) == <<v % 256, (v \div 256) % 256, (v \div 65536) % 256,
                  (v \div 16777216) % 256>>

\* read(fd, (void *)osip, sizeof(*osip)): the header bytes seen as the struct
DecodeOsip(h) == [sig |-> LE32(h.sig), num_images |-> h.num_images,
                  desc |-> h.desc]

\* write_OSIP: the struct written back as bytes
EncodeOsip(t) == [sig |-> LE32Bytes(t.sig), num_images |-> t.num_images,
                  desc |-> t.desc]

SigBytes == <<36, 79, 83, 36>>

\* a device with a valid header and images in slots 0 and 1
FormattedDev ==
    [sig |-> SigBytes, num_images |-> 2,
     desc |-> [i \in Slots |-> CASE i = 0 -> MkDesc(256, 3, 1)
                                 [] i = 1 -> MkDesc(512, 3, 2)
                                 [] OTHER -> ZeroDesc]]

\* a device whose first bytes are all zero
BlankDev == [sig |-> <<0, 0, 0, 0>>, num_images |-> 0,
             desc |-> [i \in Slots |-> ZeroDesc]]

\* the same slots as FormattedDev under a wrong signature
BadSigDev == [FormattedDev EXCEPT !.sig = <<36, 83, 79, 36>>]

DevTables == {FormattedDev, BlankDev, BadSigDev}

\* contents of the erase_size attribute
EraseAttrs == {<<"2", "0", "4", "8", "\n">>, <<"5", "1", "2", "\n">>,
               <<"x", "\n">>}

\* what the first bytes of a payload are when read as an OSIP header
HeadOf(b) ==
    IF b = 1 THEN BlankDev
    ELSE [sig |-> SigBytes, num_images |-> 1,
          desc |-> [i \in Slots |-> IF i = 0 THEN MkDesc(512, 2, 2)
                                             ELSE ZeroDesc]]

\* slot indices the command handler passes: the first slot, which holds
\* an image, and the last slot, which is empty
UpdateNumbers == {0, OSII_TOTAL - 1}

\* a slot index outside the table, the first one past
\* desc[OSII_TOTAL - 1]: write_stitch_image takes any int
OutOfRange == {OSII_TOTAL}

\* what the memory behind desc[] may hold where a start block is read
\* from it
StrayBlocks == {0, 256}

PagesSet == (0 .. MaxPages) \cup {Pages2to32 + 1}

SizeSet == {0, 513} \cup {STITCHED_IMAGE_BLOCK_SIZE * (n + 1) : n \in 0 .. MaxPages}

\* stitched images: the descriptor in the leading block and the payload
Images == {[osii |-> MkDesc(IF t = 1 THEN 768 ELSE 0, p, t), blob |-> t] :
             p \in PagesSet, t \in {1, 2}}

NoIo == [geom1 |-> "none", geom2 |-> "none", crack |-> "none",
         read |-> "none", wosip |-> "none", open |-> "none",
         write |-> "none"]

IsDigit(c) == c \in {"0", "1", "2", "3", "4", "5", "6", "7", "8", "9"}

DigitVal(c) ==
    CASE c = "0" -> 0 [] c = "1" -> 1 [] c = "2" -> 2 [] c = "3" -> 3
      [] c = "4" -> 4 [] c = "5" -> 5 [] c = "6" -> 6 [] c = "7" -> 7
      [] c = "8" -> 8 [] c = "9" -> 9

RECURSIVE SkipSpace(_, _)
SkipSpace(str, i) ==
    IF i <= Len(str) /\ str[i] \in {" ", "\n", "\t"}
    THEN SkipSpace(str, i + 1) ELSE i

RECURSIVE ScanDigits(_, _, _)
ScanDigits(str, i, acc) ==
    IF i <= Len(str) /\ IsDigit(str[i])
    THEN ScanDigits(str, i + 1, acc * 10 + DigitVal(str[i]))
    ELSE acc

\* sscanf(buf, "%d", &mmc_page_size): n is the number of conversions
Sscanf_d(str) ==
    LET i == SkipSpace(str, 1)
        signed == i <= Len(str) /\ str[i] \in {"-", "+"}
        j == IF signed THEN i + 1 ELSE i
    IN IF j <= Len(str) /\ IsDigit(str[j])
       THEN [n |-> 1,
             val |-> IF signed /\ str[i] = "-"
                     THEN 0 - ScanDigits(str, j, 0)
                     ELSE ScanDigits(str, j, 0)]
       ELSE [n |-> 0, val |-> 0]

\* C integer division truncates toward zero
CDiv(a, b) == IF a >= 0 THEN a \div b ELSE 0 - ((0 - a) \div b)

\* update_osip.c:63-89  q is the outcome of open and read
get_page_size(q) ==
    IF q = "open" THEN -1
    ELSE IF q = "read" THEN -1
    ELSE IF Sscanf_d(erase_attr).n # 1 THEN -1
    ELSE CDiv(Sscanf_d(erase_attr).val, KBYTES)

\* update_osip.c:92-99
get_block_size(q) == get_page_size(q) * MMC_PAGES_PER_BLOCK

\* osii->size_of_os_image * STITCHED_IMAGE_PAGE_SIZE in 32-bit unsigned
\* arithmetic: (p * 512) mod 2^32, a result at or above 2^31 written as
\* the result minus 2^32
Mul512(p) ==
    LET m == p % Pages2to32
    IN IF m < Pages2to32 \div 2
       THEN m * STITCHED_IMAGE_PAGE_SIZE
       ELSE (m - Pages2to32) * STITCHED_IMAGE_PAGE_SIZE

\* size - STITCHED_IMAGE_BLOCK_SIZE in 32-bit size_t arithmetic: below 512
\* the difference wraps to 2^32 - 512 + sz, written as that minus 2^32
PayloadLen(sz) == sz - STITCHED_IMAGE_BLOCK_SIZE

\* unsigned 32-bit v / d for 0 <= v < 2^31; a negative int d converts to
\* 2^32 + d, which is above v
UDiv(v, d) == IF d < 0 THEN 0 ELSE v \div d

\* a read that fails closed:  if (osip->sig != OSIP_SIG) return -1;
ReadOsipRet_strict(sig) == IF sig # OSIP_SIG THEN -1 ELSE 1

\* update_osip.c:191-204  the value read_OSIP_loc returns after the read
ReadOsipRet(sig) == 1

\* the device after  lseek(fd, off); write(fd, b, len)  put n bytes there.
\* The header read by read_OSIP_loc lies at offset 0 of the same device and
\* ends before BACKUP_LOC (0xE0); payload lengths are multiples of 512 and
\* the start blocks used here give offset 0 or an offset of 256 or more, so
\* a payload either replaces the whole header or leaves it alone
DevWrite(off, b, n) ==
    [osip |-> IF n > 0 /\ off = 0 THEN HeadOf(b) ELSE dev_osip,
     data |-> IF n > 0
              THEN {d \in dev_data : d.off # off}
                     \cup {[off |-> off, blob |-> b, len |-> n]}
              ELSE dev_data]

(* ------------------------------- Init ---------------------------------- *)

InitThreads ==
    /\ proc = "running"
    /\ autoboot_enabled \in {0, 1}          \* USE_AUTOBOOT
    /\ autoboot_delay_secs \in 0 .. MaxDelay    \* AUTOBOOT_DELAY_SECS
    /\ sleep_time = autoboot_delay_secs    \* line 67: *((unsigned int *)arg)
    /\ ticks = 0
    /\ ab_pc = "entry"
    /\ launched = 0
    /\ w_pc = "opendir"
    /\ rfds = {}
    /\ max_fd = -1
    /\ fds = {}
    /\ w_i = 0
    /\ event = NoEvent
    /\ w_calls = 0
    /\ m_pc = "malloc"
    /\ n_log = 0
    /\ n_clear = 0
    /\ cancel_at = NotYet

InitDev ==
    /\ erase_attr \in EraseAttrs
    /\ dev_osip \in DevTables
    /\ dev_data = {}
    /\ n_flash = 0
    /\ data = [osii |-> ZeroDesc, blob |-> 0]
    /\ size = 0
    /\ update_number = 0
    /\ block_size = 0
    /\ page_size = 0
    /\ osii = ZeroDesc
    /\ blob = 0
    /\ osip = ZeroOsip
    /\ ret = 0
    /\ r_ret = 0
    /\ console = {}
    /\ io = NoIo
    /\ io_log = <<>>
    /\ pre = [osip |-> dev_osip, data |-> dev_data]

Init == InitThreads /\ InitDev

\* the threads race over the flag; the device is not touched
InitBoot ==
    /\ InitThreads
    /\ InitDev
    /\ dev_osip = FormattedDev
    /\ erase_attr = <<"2", "0", "4", "8", "\n">>

\* commands update the device; USE_AUTOBOOT is 0 and the delay is 0
InitOsip ==
    /\ InitThreads
    /\ InitDev
    /\ autoboot_enabled = 0
    /\ autoboot_delay_secs = 0

(* -------------------------- autoboot_thread ---------------------------- *)

ab_rest == <<proc, autoboot_enabled, autoboot_delay_secs, launched, w_pc, rfds, max_fd, fds, w_i,
             event, w_calls, m_pc, n_log, n_clear, cancel_at, osip_vars>>

\* droidboot.c:67-70
AB_Entry ==
    /\ proc = "running" /\ ab_pc = "entry"
    /\ ab_pc' = IF AbStops(autoboot_enabled) THEN "done" ELSE "cond"
    /\ UNCHANGED <<sleep_time, ticks, ab_rest>>

LoopContinues_shortByOne(st) == st > 1

\* droidboot.c:72  the loop condition  sleep_time  of the for statement
LoopContinues(st) == st # 0

\* droidboot.c:72  the loop condition is tested
AB_Cond ==
    /\ proc = "running" /\ ab_pc = "cond"
    /\ ab_pc' = IF LoopContinues(sleep_time) THEN "sleep" ELSE "boot"
    /\ UNCHANGED <<sleep_time, ticks, ab_rest>>

\* droidboot.c:73-74  dprintf; sleep(1);
AB_Sleep ==
    /\ proc = "running" /\ ab_pc = "sleep"
    /\ ab_pc' = "check"
    /\ ticks' = ticks + 1
    /\ UNCHANGED <<sleep_time, ab_rest>>

\* droidboot.c:75-76
AB_Check ==
    /\ proc = "running" /\ ab_pc = "check"
    /\ ab_pc' = IF AbStops(autoboot_enabled) THEN "done" ELSE "dec"
    /\ UNCHANGED <<sleep_time, ticks, ab_rest>>

\* droidboot.c:72  sleep_time--
AB_Dec ==
    /\ proc = "running" /\ ab_pc = "dec"
    /\ sleep_time' = sleep_time - 1
    /\ ab_pc' = "cond"
    /\ UNCHANGED <<ticks, ab_rest>>

MountFailure_die(p) == "dead"

\* droidboot.c:222-225  if (!mountpoint) { dprintf(CRITICAL, ...); return; }
\* the process state after the failed-mount branch: it is left as it was
MountFailure(p) == p

\* droidboot.c:79 and 219-225  start_default_kernel(): find_part,
\* mount_partition; a failed mount returns to autoboot_thread
SDK_Mount ==
    /\ proc = "running" /\ ab_pc = "boot"
    /\ launched' = launched + 1
    /\ \E mounted \in BOOLEAN :
         /\ ab_pc' = IF mounted THEN "kexec" ELSE "sdk_ret"
         /\ proc' = IF mounted THEN proc ELSE MountFailure(proc)
    /\ UNCHANGED <<autoboot_enabled, sleep_time, autoboot_delay_secs, ticks,
                   w_pc, rfds, max_fd,
                   fds, w_i, event, w_calls, m_pc, n_log, n_clear,
                   cancel_at, osip_vars>>

\* droidboot.c:81-82  back in autoboot_thread after start_default_kernel
\* returned from its failed-mount branch: return NULL
AB_Return ==
    /\ proc = "running" /\ ab_pc = "sdk_ret"
    /\ ab_pc' = "done"
    /\ UNCHANGED <<sleep_time, ticks, ab_rest>>

\* droidboot.c:227-245  asprintf x3, kexec_linux: the kernel takes over,
\* or die(), or kexec_linux returns 0 and the thread returns
SDK_Kexec ==
    /\ proc = "running" /\ ab_pc = "kexec"
    /\ \E r \in {"boot", "die", "return"} :
         /\ proc' = CASE r = "boot" -> "booted"
                      [] r = "die" -> "dead"
                      [] OTHER -> proc
         /\ ab_pc' = "done"
    /\ UNCHANGED <<autoboot_enabled, sleep_time, autoboot_delay_secs, ticks,
                   launched, w_pc, rfds,
                   max_fd, fds, w_i, event, w_calls, m_pc, n_log, n_clear,
                   cancel_at, osip_vars>>

(* ----------------------- input_listener_thread ------------------------- *)

w_rest == <<autoboot_enabled, sleep_time, autoboot_delay_secs, ticks, ab_pc,
            launched, m_pc, osip_vars>>

\* droidboot.c:116-120  opendir fails: goto out
W_OpendirFail ==
    /\ proc = "running" /\ w_pc = "opendir"
    /\ w_pc' = "out"
    /\ UNCHANGED <<proc, rfds, max_fd, fds, w_i, event, w_calls, n_log,
                   n_clear, cancel_at, w_rest>>

\* droidboot.c:131-134  stat fails: die()
W_StatDie ==
    /\ proc = "running" /\ w_pc = "opendir"
    /\ proc' = "dead"
    /\ UNCHANGED <<w_pc, rfds, max_fd, fds, w_i, event, w_calls, n_log,
                   n_clear, cancel_at, w_rest>>

\* droidboot.c:85-99, 121-143  every character device that opens is added
\* to rfds; with none opened the thread goes to out
W_OpenNodes ==
    /\ proc = "running" /\ w_pc = "opendir"
    /\ \E opened \in SUBSET FdSet :
         /\ rfds' = opened
         /\ max_fd' = IF opened = {} THEN -1 ELSE SetMax(opened)
         /\ w_pc' = IF opened = {} THEN "out" ELSE "select"
    /\ UNCHANGED <<proc, fds, w_i, event, w_calls, n_log, n_clear,
                   cancel_at, w_rest>>

\* droidboot.c:148-153  fds = rfds; select(); i = 0
W_Select ==
    /\ proc = "running" /\ w_pc = "select"
    /\ \E ready \in (SUBSET rfds) \ {{}} : fds' = ready
    /\ w_i' = 0
    /\ w_pc' = "for"
    /\ UNCHANGED <<proc, rfds, max_fd, event, w_calls, n_log, n_clear,
                   cancel_at, w_rest>>

\* droidboot.c:153  i <= max_fd is false: back to the top of while (1)
W_ForEnd ==
    /\ proc = "running" /\ w_pc = "for" /\ ~(w_i <= max_fd)
    /\ w_pc' = "select"
    /\ UNCHANGED <<proc, rfds, max_fd, fds, w_i, event, w_calls, n_log,
                   n_clear, cancel_at, w_rest>>

\* droidboot.c:156-157  if (!FD_ISSET(i, &fds)) continue;
W_Skip ==
    /\ proc = "running" /\ w_pc = "for" /\ w_i <= max_fd /\ w_i \notin fds
    /\ w_i' = w_i + 1
    /\ UNCHANGED <<proc, w_pc, rfds, max_fd, fds, event, w_calls, n_log,
                   n_clear, cancel_at, w_rest>>

\* droidboot.c:160-166  the read does not return a whole event: continue
W_ReadFail ==
    /\ proc = "running" /\ w_pc = "for" /\ w_i <= max_fd /\ w_i \in fds
    /\ w_i' = w_i + 1
    /\ UNCHANGED <<proc, w_pc, rfds, max_fd, fds, event, w_calls, n_log,
                   n_clear, cancel_at, w_rest>>

\* droidboot.c:160-170  a whole event is read
W_Read ==
    /\ proc = "running" /\ w_pc = "for" /\ w_i <= max_fd /\ w_i \in fds
    /\ \E e \in Events : event' = e
    /\ w_pc' = "switch"
    /\ UNCHANGED <<proc, rfds, max_fd, fds, w_i, w_calls, n_log, n_clear,
                   cancel_at, w_rest>>

\* droidboot.c:171-192  the switch on event.type and event.code
W_Switch ==
    /\ proc = "running" /\ w_pc = "switch"
    /\ IF SwitchCancels(event)
       THEN /\ w_pc' = "dis_if"
            /\ w_calls' = w_calls + 1
            /\ w_i' = w_i
       ELSE /\ w_pc' = "for"
            /\ w_calls' = w_calls
            /\ w_i' = w_i + 1
    /\ UNCHANGED <<proc, rfds, max_fd, fds, event, n_log, n_clear,
                   cancel_at, w_rest>>

AfterDisable_break == "for"

\* droidboot.c:181-182 and 188-189  disable_autoboot(); goto out;
\* where the listener is once disable_autoboot has returned
AfterDisable == "out"

\* droidboot.c:204  disable_autoboot called by the listener: the test
W_DisIf ==
    /\ proc = "running" /\ w_pc = "dis_if"
    /\ IF DisableTest(autoboot_enabled)
       THEN w_pc' = "dis_clear" /\ cancel_at' = cancel_at
       ELSE w_pc' = AfterDisable /\ cancel_at' = Returned
    /\ UNCHANGED <<proc, rfds, max_fd, fds, w_i, event, w_calls, n_log,
                   n_clear, w_rest>>

\* droidboot.c:205  the store
W_DisClear ==
    /\ proc = "running" /\ w_pc = "dis_clear"
    /\ autoboot_enabled' = DisableStore(autoboot_enabled)
    /\ n_clear' = IF autoboot_enabled = 1 /\ autoboot_enabled' = 0
                  THEN n_clear + 1 ELSE n_clear
    /\ w_pc' = "dis_log"
    /\ UNCHANGED <<proc, sleep_time, autoboot_delay_secs, ticks, ab_pc,
                   launched, m_pc, rfds, max_fd,
                   fds, w_i, event, w_calls, n_log, cancel_at, osip_vars>>

\* droidboot.c:206-208 and 182/189  the log line, the return, goto out
W_DisLog ==
    /\ proc = "running" /\ w_pc = "dis_log"
    /\ n_log' = n_log + 1
    /\ cancel_at' = Returned
    /\ w_pc' = AfterDisable
    /\ UNCHANGED <<proc, rfds, max_fd, fds, w_i, event, w_calls, n_clear,
                   w_rest>>

\* droidboot.c:195-198  out: the thread returns
W_Out ==
    /\ proc = "running" /\ w_pc = "out"
    /\ w_pc' = "exited"
    /\ UNCHANGED <<proc, rfds, max_fd, fds, w_i, event, w_calls, n_log,
                   n_clear, cancel_at, w_rest>>

(* ------------------------ main / command thread ------------------------ *)

m_rest == <<sleep_time, autoboot_delay_secs, ticks, ab_pc, launched, w_pc,
            rfds, max_fd, fds, w_i, event, w_calls, osip_vars>>

\* droidboot.c:276-287  scratch = malloc(); die() when it fails, otherwise
\* fastboot_init() starts serving commands
M_Start ==
    /\ m_pc = "malloc" /\ proc = "running"
    /\ \E ok \in BOOLEAN :
         IF ok THEN m_pc' = "idle" /\ proc' = proc
               ELSE m_pc' = m_pc /\ proc' = "dead"
    /\ UNCHANGED <<autoboot_enabled, n_log, n_clear, cancel_at, m_rest>>

\* a command handler calls disable_autoboot() (droidboot.c:202)
M_CmdDisable ==
    /\ proc = "running" /\ m_pc = "idle"
    /\ m_pc' = "dis_if"
    /\ UNCHANGED <<proc, autoboot_enabled, n_log, n_clear, cancel_at, m_rest>>

\* droidboot.c:204  the test
M_DisIf ==
    /\ proc = "running" /\ m_pc = "dis_if"
    /\ IF DisableTest(autoboot_enabled)
       THEN m_pc' = "dis_clear" /\ cancel_at' = cancel_at
       ELSE m_pc' = "idle" /\ cancel_at' = Returned
    /\ UNCHANGED <<proc, autoboot_enabled, n_log, n_clear, m_rest>>

\* droidboot.c:205  the store
M_DisClear ==
    /\ proc = "running" /\ m_pc = "dis_clear"
    /\ autoboot_enabled' = DisableStore(autoboot_enabled)
    /\ n_clear' = IF autoboot_enabled = 1 /\ autoboot_enabled' = 0
                  THEN n_clear + 1 ELSE n_clear
    /\ m_pc' = "dis_log"
    /\ UNCHANGED <<proc, n_log, cancel_at, m_rest>>

\* droidboot.c:206-208  the log line and the return
M_DisLog ==
    /\ proc = "running" /\ m_pc = "dis_log"
    /\ n_log' = n_log + 1
    /\ cancel_at' = Returned
    /\ m_pc' = "idle"
    /\ UNCHANGED <<proc, autoboot_enabled, n_clear, m_rest>>

(* ------------------ update_osip.c: write_stitch_image ------------------ *)

ws_rest == <<thr_vars, erase_attr>>

\* write_stitch_image is at a return statement, ret is the value returned
WsReturned == m_pc = "ws_ret"

\* a command handler calls write_stitch_image (update_osip.c:102)
M_CmdFlash ==
    /\ proc = "running" /\ m_pc = "idle" /\ n_flash < MaxFlash
    /\ \E img \in Images, sz \in SizeSet,
          k \in UpdateNumbers \cup OutOfRange :
         /\ data' = img
         /\ size' = sz
         /\ update_number' = k
    /\ n_flash' = n_flash + 1
    /\ m_pc' = "ws_geom"
    /\ ret' = 0
    /\ UNCHANGED <<proc, dev_osip, dev_data, block_size, page_size, osii,
                   blob, osip, r_ret, console, io, io_log, pre, ws_rest>>

\* update_osip.c:108-116  both geometry queries, then the block_size test
WS_Geometry ==
    /\ proc = "running" /\ m_pc = "ws_geom"
    /\ \E q1 \in {"ok", "open", "read"}, q2 \in {"ok", "open", "read"} :
         /\ block_size' = get_block_size(q1)
         /\ page_size' = get_page_size(q2)
         /\ io' = [io EXCEPT !.geom1 = q1, !.geom2 = q2]
    /\ IF block_size' < 0
       THEN m_pc' = "ws_ret" /\ ret' = -1
       ELSE m_pc' = "ws_crack" /\ ret' = ret
    /\ UNCHANGED <<proc, dev_osip, dev_data, n_flash, data, size,
                   update_number, osii, blob, osip, r_ret, console, io_log,
                   pre, ws_rest>>

\* update_osip.c:117-120  crack_stitched_image: osii points at the
\* descriptor in the leading block, blob at the payload behind it
WS_Crack ==
    /\ proc = "running" /\ m_pc = "ws_crack"
    /\ \E ok \in BOOLEAN :
         IF ok
         THEN /\ osii' = data.osii /\ blob' = data.blob
              /\ io' = [io EXCEPT !.crack = "ok"]
              /\ m_pc' = "ws_check" /\ ret' = ret
         ELSE /\ osii' = osii /\ blob' = blob
              /\ io' = [io EXCEPT !.crack = "fail"]
              /\ m_pc' = "ws_ret" /\ ret' = -1
    /\ UNCHANGED <<proc, dev_osip, dev_data, n_flash, data, size,
                   update_number, block_size, page_size, osip, r_ret,
                   console, io_log, pre, ws_rest>>

\* update_osip.c:121-125  the length test
WS_Check ==
    /\ proc = "running" /\ m_pc = "ws_check"
    /\ IF Mul512(osii.size) # PayloadLen(size)
       THEN m_pc' = "ws_ret" /\ ret' = -1
       ELSE m_pc' = "ws_read" /\ ret' = ret
    /\ UNCHANGED <<proc, dev_osip, dev_data, n_flash, data, size,
                   update_number, block_size, page_size, osii, blob, osip,
                   r_ret, console, io, io_log, pre, ws_rest>>

\* update_osip.c:126-129 and 165-205  read_OSIP_loc(&osip, R_START,
\* NOT_DUMP): memset, open, lseek, read, the signature message, return 1
WS_ReadOSIP ==
    /\ proc = "running" /\ m_pc = "ws_read"
    /\ \E q \in {"ok", "open", "read"} :
         /\ io' = [io EXCEPT !.read = q]
         /\ IF q = "ok"
            THEN /\ osip' = DecodeOsip(dev_osip)
                 /\ console' = IF osip'.sig # OSIP_SIG
                               THEN console \cup {"Invalid OSIP header detected!"}
                               ELSE console
                 /\ r_ret' = ReadOsipRet(osip'.sig)
                 /\ io_log' = Append(io_log, "read_osip")
            ELSE /\ osip' = ZeroOsip
                 /\ console' = console
                 /\ r_ret' = -1
                 /\ io_log' = io_log
    /\ IF r_ret' < 0
       THEN m_pc' = "ws_ret" /\ ret' = -1
       ELSE m_pc' = "ws_splice" /\ ret' = ret
    /\ UNCHANGED <<proc, dev_osip, dev_data, n_flash, data, size,
                   update_number, block_size, page_size, osii, blob, pre,
                   ws_rest>>

\* update_osip.c:132-133  osip.desc[update_number].logical_start_block:
\* update_number is not compared with OSII_TOTAL, and outside the array
\* the read is undefined: it yields what lies there
SlotStart(t, k) == IF k \in Slots THEN {t.desc[k].lsb} ELSE StrayBlocks

\* update_osip.c:137  memcpy(&(osip.desc[update_number]), osii, ...): in
\* the table the slot is replaced; past its end the copy is undefined: the
\* process traps, or the copy lands on other memory of the frame
SpliceOutcomes(k) == IF k \in Slots THEN {"slot"} ELSE {"crash", "miss"}

\* update_osip.c:137  osip after the copy with outcome o
Spliced(t, k, dsc, o) == IF o = "slot" THEN [t EXCEPT !.desc[k] = dsc] ELSE t

\* update_osip.c:131-141  num_images, the start block, the size, the copy
\* into the slot.  Dividing by a page_size of 0 is undefined: the process
\* traps, or the division yields 0
WS_Splice ==
    /\ proc = "running" /\ m_pc = "ws_splice"
    /\ \E q \in IF page_size = 0 THEN {-1, 0}
                ELSE {UDiv(Mul512(osii.size), page_size)},
          start \in SlotStart(osip, update_number),
          o \in SpliceOutcomes(update_number) :
         IF q < 0 \/ o = "crash"
         THEN /\ proc' = "crashed"
              /\ UNCHANGED <<m_pc, osii, osip>>
         ELSE /\ proc' = proc
              /\ osii' = [osii EXCEPT !.lsb = start, !.size = q + 1]
              /\ osip' = Spliced([osip EXCEPT !.num_images = 1],
                                 update_number, osii', o)
              /\ m_pc' = "ws_wosip"
    /\ UNCHANGED <<dev_osip, dev_data, n_flash, data, size, update_number,
                   block_size, page_size, blob, ret, r_ret, console, io,
                   io_log, pre, ws_rest>>

\* update_osip.c:143  write_OSIP(&osip); its result is not used
WS_WriteOSIP ==
    /\ proc = "running" /\ m_pc = "ws_wosip"
    /\ \E ok \in BOOLEAN :
         IF ok
         THEN /\ dev_osip' = EncodeOsip(osip)
              /\ io' = [io EXCEPT !.wosip = "ok"]
              /\ io_log' = Append(io_log, "write_osip")
         ELSE /\ dev_osip' = dev_osip
              /\ io' = [io EXCEPT !.wosip = "fail"]
              /\ io_log' = io_log
    /\ m_pc' = "ws_open"
    /\ UNCHANGED <<proc, dev_data, n_flash, data, size, update_number,
                   block_size, page_size, osii, blob, osip, ret, r_ret,
                   console, pre, ws_rest>>

\* update_osip.c:145-149  open(MMC_DEV_POS, O_RDWR)
WS_Open ==
    /\ proc = "running" /\ m_pc = "ws_open"
    /\ \E ok \in BOOLEAN :
         IF ok
         THEN io' = [io EXCEPT !.open = "ok"]
              /\ m_pc' = "ws_write" /\ ret' = ret
         ELSE io' = [io EXCEPT !.open = "fail"]
              /\ m_pc' = "ws_ret" /\ ret' = -1
    /\ UNCHANGED <<proc, dev_osip, dev_data, n_flash, data, size,
                   update_number, block_size, page_size, osii, blob, osip,
                   r_ret, console, io_log, pre, ws_rest>>

\* update_osip.c:150-156  lseek to logical_start_block * block_size and
\* write the payload: all of it, none of it, or half of it
WS_Write ==
    /\ proc = "running" /\ m_pc = "ws_write"
    /\ LET off == osii.lsb * block_size
           len == PayloadLen(size)
       IN \E q \in IF len > 0 THEN {"full", "fail", "partial"}
                   ELSE {"full", "fail"} :
            LET n == CASE q = "full" -> len
                       [] q = "partial" -> len \div 2
                       [] OTHER -> 0
            IN /\ dev_osip' = DevWrite(off, blob, n).osip
               /\ dev_data' = DevWrite(off, blob, n).data
               /\ io' = [io EXCEPT !.write = q]
               /\ io_log' = IF q = "fail" THEN io_log
                            ELSE Append(io_log, "write_blob")
               /\ IF q = "full"
                  THEN m_pc' = "ws_sync" /\ ret' = ret
                  ELSE m_pc' = "ws_ret" /\ ret' = -1
    /\ UNCHANGED <<proc, n_flash, data, size, update_number, block_size,
                   page_size, osii, blob, osip, r_ret, console, pre,
                   ws_rest>>

\* update_osip.c:157-160  fsync, close, return 0
WS_Sync ==
    /\ proc = "running" /\ m_pc = "ws_sync"
    /\ io_log' = Append(io_log, "fsync")
    /\ ret' = 0
    /\ m_pc' = "ws_ret"
    /\ UNCHANGED <<proc, dev_osip, dev_data, n_flash, data, size,
                   update_number, block_size, page_size, osii, blob, osip,
                   r_ret, console, io, pre, ws_rest>>

\* the return to the command handler: the frame of write_stitch_image and
\* the record of the call are gone, the handler has the returned value
WS_Return ==
    /\ proc = "running" /\ m_pc = "ws_ret"
    /\ m_pc' = "idle"
    /\ data' = [osii |-> ZeroDesc, blob |-> 0]
    /\ size' = 0 /\ update_number' = 0
    /\ block_size' = 0 /\ page_size' = 0
    /\ osii' = ZeroDesc /\ blob' = 0 /\ osip' = ZeroOsip
    /\ r_ret' = 0
    /\ console' = {} /\ io' = NoIo /\ io_log' = <<>>
    /\ pre' = [osip |-> dev_osip, data |-> dev_data]
    /\ UNCHANGED <<proc, dev_osip, dev_data, n_flash, ret, ws_rest>>

(* --------------------------- specifications ---------------------------- *)

NextBoot ==
    \/ AB_Entry \/ AB_Cond \/ AB_Sleep \/ AB_Check \/ AB_Dec
    \/ SDK_Mount \/ AB_Return \/ SDK_Kexec
    \/ W_OpendirFail \/ W_StatDie \/ W_OpenNodes \/ W_Select \/ W_ForEnd
    \/ W_Skip \/ W_ReadFail \/ W_Read \/ W_Switch
    \/ W_DisIf \/ W_DisClear \/ W_DisLog \/ W_Out
    \/ M_Start \/ M_CmdDisable \/ M_DisIf \/ M_DisClear \/ M_DisLog

SpecBoot == InitBoot /\ [][NextBoot]_vars

\* the steps of autoboot_thread
ABNext ==
    \/ AB_Entry \/ AB_Cond \/ AB_Sleep \/ AB_Check \/ AB_Dec
    \/ SDK_Mount \/ AB_Return \/ SDK_Kexec

\* autoboot_thread is a thread of its own (pthread_create, droidboot.c:266):
\* the scheduler keeps running it while it has a step to take, sleep(1)
\* and the calls of start_default_kernel return
SpecBootFair == SpecBoot /\ WF_vars(ABNext)

NextOsip ==
    \/ M_Start \/ M_CmdFlash
    \/ WS_Geometry \/ WS_Crack \/ WS_Check \/ WS_ReadOSIP \/ WS_Splice
    \/ WS_WriteOSIP \/ WS_Open \/ WS_Write \/ WS_Sync \/ WS_Return

SpecOsip == InitOsip /\ [][NextOsip]_vars

Next == NextBoot \/ NextOsip

Spec == Init /\ [][Next]_vars

(* ------------------------------ claims --------------------------------- *)

\* C1 (as stated): if a call of disable_autoboot returns while the
\* countdown counter sleep_time is still above zero, start_default_kernel
\* is never called.
C1_CancelBeforeZero ==
    (cancel_at # NotYet /\ cancel_at.st > 0) => launched = 0

\* C1 (amended): the same, except when the call returns in the window
\* between the last test of the flag (line 75, sleep_time = 1) and the
\* decrement that follows it; a cancellation that returns while a test of
\* the flag still lies ahead always prevents the boot.
C1_CancelBeforeLastTest ==
    (/\ cancel_at # NotYet
     /\ cancel_at.st > 0
     /\ ~(cancel_at.pc = "dec" /\ cancel_at.st = 1)) => launched = 0

\* a cancellation returned during a tick and the thread then stopped
\* without booting
C1_Witness ==
    /\ cancel_at.pc \in {"sleep", "check"}
    /\ cancel_at.st > 0
    /\ n_clear = 1
    /\ ab_pc = "done"
    /\ launched = 0

\* C2: a KEY_DOT key event and an event that is neither key, relative nor
\* absolute never lead to disable_autoboot and leave the listener in its
\* loop; every other key event and every relative or absolute event makes
\* the listener call disable_autoboot.
C2_EventClasses ==
    /\ [](w_pc \in {"dis_if", "dis_clear", "dis_log"} =>
            /\ event.type \in {EV_KEY, EV_REL, EV_ABS}
            /\ ~(event.type = EV_KEY /\ event.code = KEY_DOT))
    /\ [][(w_pc = "switch" /\ w_pc' # "switch") =>
            IF \/ (event.type = EV_KEY /\ event.code = KEY_DOT)
               \/ event.type \notin {EV_KEY, EV_REL, EV_ABS}
            THEN /\ w_pc' = "for"
                 /\ w_calls' = w_calls
                 /\ autoboot_enabled' = autoboot_enabled
            ELSE /\ w_pc' = "dis_if"
                 /\ w_calls' = w_calls + 1]_vars

\* a KEY_DOT key event was read and the listener is still looping with
\* autoboot armed
C2_Witness ==
    /\ event = [type |-> EV_KEY, code |-> KEY_DOT]
    /\ w_pc = "for"
    /\ w_calls = 0
    /\ autoboot_enabled = 1

\* C7 (as stated): over any number of calls of disable_autoboot, concurrent
\* ones included, the flag is cleared and "Autoboot disabled." is logged
\* at most once.
C7_LoggedOnce == n_log <= 1 /\ n_clear <= 1

\* C7 (amended): the flag goes from 1 to 0 at most once, and exactly once
\* by the time a log line exists; a call that tests the flag when it is
\* already 0 returns without storing or logging; two calls that both test
\* the flag while it is 1 (listener and command handler) both log, so the
\* line appears once per such caller, at most twice.
C7_ClearedOnceLoggedPerCaller ==
    /\ [](/\ n_clear <= 1
          /\ n_log <= 2
          /\ (n_log >= 1 => n_clear = 1)
          /\ (cancel_at # NotYet => autoboot_enabled = 0))
    /\ [][/\ (m_pc = "dis_if" /\ m_pc' # "dis_if" /\ autoboot_enabled = 0)
             => (m_pc' = "idle"
                 /\ UNCHANGED <<autoboot_enabled, n_log, n_clear>>)
          /\ (w_pc = "dis_if" /\ w_pc' # "dis_if" /\ autoboot_enabled = 0)
             => (w_pc' = "out"
                 /\ UNCHANGED <<autoboot_enabled, n_log, n_clear>>)]_vars

\* both the listener and the command handler have called disable_autoboot
\* and returned, the flag was cleared once
C7_Witness ==
    /\ n_clear = 1
    /\ autoboot_enabled = 0
    /\ w_calls = 1
    /\ w_pc = "exited"
    /\ m_pc = "idle"
    /\ cancel_at # NotYet

\* C8: once autoboot_enabled is 0 it stays 0.
C8_OneWay == [][autoboot_enabled = 0 => autoboot_enabled' = 0]_vars

\* the flag was cleared and all three threads went on running afterwards
C8_Witness ==
    /\ autoboot_enabled = 0
    /\ n_clear = 1
    /\ n_log = 2
    /\ ab_pc = "done"
    /\ w_pc = "exited"
    /\ m_pc = "dis_if"

\* the payload length sz - 512 equals p * 512 (in unbounded arithmetic)
LengthMatches(p, sz) ==
    /\ sz >= STITCHED_IMAGE_BLOCK_SIZE
    /\ (sz - STITCHED_IMAGE_BLOCK_SIZE) % STITCHED_IMAGE_PAGE_SIZE = 0
    /\ (sz - STITCHED_IMAGE_BLOCK_SIZE) \div STITCHED_IMAGE_PAGE_SIZE = p

\* the device holds what it held when the current call began, and the call
\* has issued no write to it
DeviceUntouched ==
    /\ dev_osip = pre.osip
    /\ dev_data = pre.data
    /\ \A i \in 1 .. Len(io_log) : io_log[i] \notin {"write_osip", "write_blob"}

\* C3: write_stitch_image called with an image whose payload length
\* (size - 512) differs from declared pages * 512 returns -1 and leaves the
\* header and the payload regions of the device as they were.
C3_MismatchRejected ==
    (WsReturned /\ ~LengthMatches(data.osii.size, size))
        => (ret = -1 /\ DeviceUntouched)

\* C4: after write_stitch_image returns 0 for slot k, every other slot of
\* the header on the device is what it was before the call and slot k has
\* the logical_start_block it had before the call.
C4_OtherSlotsKept ==
    (WsReturned /\ ret = 0 /\ update_number \in Slots) =>
        /\ \A j \in Slots \ {update_number} :
              dev_osip.desc[j] = pre.osip.desc[j]
        /\ dev_osip.desc[update_number].lsb = pre.osip.desc[update_number].lsb

\* C5: read_OSIP_loc returns -1 exactly when the open or the read fails;
\* otherwise it returns 1 with osip holding the header on the device, also
\* when the first four bytes are not "$OS$", and then (and only then) it
\* prints "Invalid OSIP header detected!".
C5_ReadPermissive ==
    /\ (r_ret # 0) => /\ r_ret \in {1, -1}
                      /\ (r_ret = 1) <=> (io.read = "ok")
                      /\ (r_ret = -1) <=> (io.read \in {"open", "read"})
    /\ (io.read = "ok") => (r_ret = 1 /\ m_pc # "ws_read")
    /\ (m_pc = "ws_splice") =>
          /\ r_ret = 1
          /\ LE32Bytes(osip.sig) = dev_osip.sig
          /\ osip.num_images = dev_osip.num_images
          /\ osip.desc = dev_osip.desc
          /\ ("Invalid OSIP header detected!" \in console)
                <=> (dev_osip.sig # <<36, 79, 83, 36>>)

\* a header with a wrong signature was read, returned with 1 and reported
C5_Witness ==
    /\ m_pc = "ws_splice"
    /\ dev_osip.sig = <<36, 83, 79, 36>>
    /\ r_ret = 1
    /\ osip.desc[0].lsb = 256
    /\ "Invalid OSIP header detected!" \in console

\* C6: when write_stitch_image returns 0, the size in the descriptor it
\* put into the table is floor(declared pages * 512 / (erase size / 1024))
\* + 1.
C6_StoredSize ==
    (/\ WsReturned /\ ret = 0
     /\ update_number \in Slots
     /\ Sscanf_d(erase_attr).n = 1
     /\ Sscanf_d(erase_attr).val \div KBYTES >= 1) =>
        LET dps == Sscanf_d(erase_attr).val \div KBYTES
            per == STITCHED_IMAGE_PAGE_SIZE \div dps
            q == osip.desc[update_number].size - 1
            p == data.osii.size
        IN IF STITCHED_IMAGE_PAGE_SIZE % dps = 0
           THEN q % per = 0 /\ q \div per = p
           ELSE q = (p \div dps) * STITCHED_IMAGE_PAGE_SIZE
                      + ((p % dps) * STITCHED_IMAGE_PAGE_SIZE) \div dps

\* C9: a step of write_stitch_image that fails is the last step attempted
\* and the call returns -1; in particular after write_OSIP has failed the
\* device is not opened for the payload and the payload is not written.
C9_AbortOnFailure ==
    /\ (io.crack = "fail" \/ io.read \in {"open", "read"}) =>
          (io.wosip = "none" /\ io.open = "none" /\ io.write = "none"
           /\ m_pc = "ws_ret" /\ ret = -1)
    /\ (io.wosip = "fail") =>
          (io.open = "none" /\ io.write = "none"
           /\ m_pc = "ws_ret" /\ ret = -1)
    /\ (io.open = "fail" \/ io.write \in {"fail", "partial"}) =>
          (m_pc = "ws_ret" /\ ret = -1)

\* a geometry query of the current call failed: open, read or sscanf
GeomFailed(q) == q \in {"open", "read"} \/ (q = "ok" /\ Sscanf_d(erase_attr).n # 1)

\* C10: when either geometry query fails (the one for block_size or the
\* one for page_size), write_stitch_image returns -1 and has written
\* nothing to the device.
C10_GeometryFailureAborts ==
    (GeomFailed(io.geom1) \/ GeomFailed(io.geom2)) =>
        (DeviceUntouched /\ (WsReturned => ret = -1))

RangesDisjoint(t) ==
    \A i, j \in Slots :
        (i < j /\ t.desc[i].size > 0 /\ t.desc[j].size > 0)
            => \/ t.desc[i].lsb + t.desc[i].size <= t.desc[j].lsb
               \/ t.desc[j].lsb + t.desc[j].size <= t.desc[i].lsb

\* C13: if the ranges of the populated descriptors of the device table
\* were pairwise disjoint when write_stitch_image was called, they are
\* pairwise disjoint when it returns 0.
C13_RangesStayDisjoint ==
    (WsReturned /\ ret = 0 /\ RangesDisjoint(pre.osip))
        => RangesDisjoint(dev_osip)

\* C14: inside write_stitch_image the updated table is on the device
\* before the payload write begins; the payload goes to byte offset
\* logical_start_block * block size; 0 is returned only after the whole
\* payload was written and fsync was called; a short or failed payload
\* write returns -1.
C14_TableThenPayloadThenFlush ==
    /\ (io.write # "none") =>
           (io.wosip = "ok" /\ io_log[1] = "read_osip"
              /\ io_log[2] = "write_osip")
    /\ (io.write = "full" /\ PayloadLen(size) > 0
           /\ update_number \in Slots
           /\ osip.desc[update_number].lsb # 0) =>
           [off |-> osip.desc[update_number].lsb * block_size,
            blob |-> blob, len |-> PayloadLen(size)] \in dev_data
    /\ (WsReturned /\ ret = 0) =>
           /\ io.write = "full"
           /\ Len(io_log) >= 2
           /\ io_log[Len(io_log)] = "fsync"
           /\ io_log[Len(io_log) - 1] = "write_blob"
    /\ (WsReturned /\ io.write \in {"fail", "partial"}) => ret = -1

\* what C15 says of the countdown apart from its progress:
\* start_default_kernel is called at most once and only when
\* autoboot_delay_secs calls of sleep(1) have returned; once the thread has
\* ended, or has launched, it never sleeps or launches again.
CountdownSafety ==
    /\ [](/\ launched <= 1
          /\ ticks <= autoboot_delay_secs
          /\ (launched = 1 =>
                (ticks = autoboot_delay_secs /\ sleep_time = 0)))
    /\ [][(ab_pc = "done" \/ launched = 1)
             => (/\ ticks' = ticks
                 /\ launched' = launched
                 /\ (ab_pc = "done" => ab_pc' = "done"))]_vars

C16_CountIsOne ==
    (WsReturned /\ ret = 0) => dev_osip.num_images = 1

\* C17: write_stitch_image takes the start block of slot update_number
\* from the table it read, and writes the table or a payload at an offset
\* made from that start block, only when the signature of that table is
\* OSIP_SIG.
C17_SignatureCheckedBeforeUse ==
    /\ (m_pc \in {"ws_wosip", "ws_open", "ws_write", "ws_sync"})
           => osip.sig = OSIP_SIG
    /\ (io.wosip = "ok" \/ io.write \in {"full", "partial"})
           => osip.sig = OSIP_SIG

\* C18: the listener calls disable_autoboot at most once; from that call
\* on it is inside disable_autoboot, at out or gone, and reads no event,
\* examines no descriptor and waits in no select, whatever descriptors the
\* same wakeup had reported readable; with no device opened it goes to
\* out and ends without having read an event or called disable_autoboot.
C18_ListenerStopsAfterFirstCancel ==
    /\ [](/\ w_calls <= 1
          /\ (w_calls = 1) =>
                w_pc \in {"dis_if", "dis_clear", "dis_log", "out", "exited"}
          /\ (max_fd < 0) =>
                (/\ w_pc \in {"opendir", "out", "exited"}
                 /\ w_calls = 0
                 /\ event = NoEvent))
    /\ [][(w_calls = 1)
             => UNCHANGED <<w_calls, event, w_i, fds, rfds>>]_vars
    /\ [][(w_pc = "exited") => (w_pc' = "exited")]_vars

\* the listener has ended after one call of disable_autoboot while a
\* second descriptor, readable in the same wakeup, was never read
C18_Witness ==
    /\ w_calls = 1
    /\ w_pc = "exited"
    /\ Cardinality(fds) = 2
    /\ \E fd \in fds : fd > w_i

\* C19: the length test of write_stitch_image lets an image through
\* exactly when its total length is declared pages * 512 + 512 in
\* unbounded arithmetic: an image that reaches the read of the table has
\* the exact length, and an image turned away by the test has not.
C19_AcceptsIffExactLength ==
    /\ (m_pc = "ws_read") => LengthMatches(data.osii.size, size)
    /\ (WsReturned /\ io.crack = "ok" /\ io.read = "none")
           => (ret = -1 /\ ~LengthMatches(data.osii.size, size))

\* C20: a call of write_stitch_image with update_number outside
\* 0 .. OSII_TOTAL - 1 does not get past the place where the start block
\* is read and the descriptor copied, and the table on the device (its
\* signature, its count and its seven slots) stays what it was when the
\* call began.
C20_OutOfRangeSlotRejected ==
    (update_number \notin Slots) =>
        /\ m_pc \notin {"ws_wosip", "ws_open", "ws_write", "ws_sync"}
        /\ io.wosip = "none" /\ io.write = "none"
        /\ dev_osip = pre.osip
        /\ WsReturned => ret = -1

====
